---- MODULE Spec2Model ----
(***************************************************************************)
(* Model of unifi.py: main() logs in to the controller, fetches the CSRF   *)
(* token, builds the VLAN -> network id map, pushes one fixed-IP record    *)
(* per CSV row and logs out in the finally clause.                         *)
(*                                                                         *)
(* Text values (CSV fields, JSON strings) are sequences of one-character   *)
(* strings, so that strip/replace/upper/int()/ip_address() are computed.   *)
(***************************************************************************)
EXTENDS Integers, Sequences, FiniteSets, TLC

\* ------------------------------------------------------------------ bounds
MaxNets     == 2   \* network objects in the list, resolver specification
MaxRows     == 3   \* data rows in the CSV file
MaxMacLen   == 4   \* characters of a raw MAC field, normalisation specification

\* ------------------------------------------------------- python str helpers
Absent == "<absent>"            \* a dict key that is not there / None
NoneField == <<"<None>">>       \* csv.DictReader's restval for a short row

IsSpace(c) == c \in {" ", "\t"}

RECURSIVE LStrip(_)
LStrip(s) == IF s = <<>> THEN <<>>
             ELSE IF IsSpace(Head(s)) THEN LStrip(Tail(s)) ELSE s

RECURSIVE RStrip(_)
RStrip(s) == IF s = <<>> THEN <<>>
             ELSE IF IsSpace(s[Len(s)]) THEN RStrip(SubSeq(s, 1, Len(s) - 1)) ELSE s

\* str.strip()
Strip(s) == RStrip(LStrip(s))

\* str.replace(a, b) for one-character a and b
RECURSIVE Replace(_, _, _)
Replace(s, a, b) ==
    IF s = <<>> THEN <<>>
    ELSE <<IF Head(s) = a THEN b ELSE Head(s)>> \o Replace(Tail(s), a, b)

Lowers == <<"a", "b", "c", "d", "e", "f", "g", "h", "i", "j", "k", "l", "m",
            "n", "o", "p", "q", "r", "s", "t", "u", "v", "w", "x", "y", "z">>
Uppers == <<"A", "B", "C", "D", "E", "F", "G", "H", "I", "J", "K", "L", "M",
            "N", "O", "P", "Q", "R", "S", "T", "U", "V", "W", "X", "Y", "Z">>

UpperChar(c) == IF \E i \in 1..Len(Lowers) : Lowers[i] = c
                THEN Uppers[CHOOSE i \in 1..Len(Lowers) : Lowers[i] = c]
                ELSE c

\* str.upper()
RECURSIVE Upper(_)
Upper(s) == IF s = <<>> THEN <<>> ELSE <<UpperChar(Head(s))>> \o Upper(Tail(s))

\* str.split(sep): the list of the pieces between the separators
RECURSIVE SplitAcc(_, _, _)
SplitAcc(s, sep, cur) ==
    IF s = <<>> THEN <<cur>>
    ELSE IF Head(s) = sep THEN <<cur>> \o SplitAcc(Tail(s), sep, <<>>)
    ELSE SplitAcc(Tail(s), sep, Append(cur, Head(s)))

Split(s, sep) == SplitAcc(s, sep, <<>>)

Digits == <<"0", "1", "2", "3", "4", "5", "6", "7", "8", "9">>
IsDigit(c) == \E i \in 1..Len(Digits) : Digits[i] = c
DigitVal(c) == (CHOOSE i \in 1..Len(Digits) : Digits[i] = c) - 1
AllDigits(s) == \A i \in 1..Len(s) : IsDigit(s[i])

RECURSIVE DecVal(_)
DecVal(s) == IF s = <<>> THEN 0
             ELSE 10 * DecVal(SubSeq(s, 1, Len(s) - 1)) + DigitVal(s[Len(s)])

\* int(text): surrounding whitespace and one sign are accepted, then decimal
\* digits; anything else raises ValueError (ok = FALSE).
PyInt(s) ==
    LET t    == Strip(s)
        sgn  == t # <<>> /\ Head(t) \in {"+", "-"}
        body == IF sgn THEN Tail(t) ELSE t
    IN  IF s = NoneField \/ body = <<>> \/ ~AllDigits(body)
        THEN [ok |-> FALSE, val |-> 0]
        ELSE [ok |-> TRUE,
              val |-> IF sgn /\ Head(t) = "-" THEN 0 - DecVal(body) ELSE DecVal(body)]

\* ------------------------------------------------ ipaddress.ip_address(text)
\* One octet of a dotted quad: 1 to 3 ASCII digits, no leading zero, <= 255.
OctetOk(o) ==
    /\ o # <<>>
    /\ AllDigits(o)
    /\ Len(o) <= 3
    /\ (Len(o) > 1 => Head(o) # "0")
    /\ DecVal(o) <= 255

IsIPv4(s) ==
    LET octets == Split(s, ".")
    IN  /\ s # <<>>
        /\ Len(octets) = 4
        /\ \A i \in 1..4 : OctetOk(octets[i])

HexChars == {"0", "1", "2", "3", "4", "5", "6", "7", "8", "9",
             "a", "b", "c", "d", "e", "f", "A", "B", "C", "D", "E", "F"}

HextetOk(h) == /\ Len(h) <= 4
               /\ \A i \in 1..Len(h) : h[i] \in HexChars

\* The groups of an IPv6 literal: at least 3 ':'-separated parts, a dotted
\* quad allowed as the last part (it stands for two groups), at most one
\* '::', which must stand for at least one group; without '::' exactly 8.
IsIPv6(s) ==
    LET raw     == Split(s, ":")
        last    == raw[Len(raw)]
        hasV4   == \E i \in 1..Len(last) : last[i] = "."
        parts   == IF hasV4
                   THEN SubSeq(raw, 1, Len(raw) - 1) \o << <<"0">>, <<"0">> >>
                   ELSE raw
        n       == Len(parts)
        skips   == {i \in 2..(n - 1) : parts[i] = <<>>}
        skip    == CHOOSE i \in skips : TRUE
        hi      == (skip - 1) - (IF parts[1] = <<>> THEN 1 ELSE 0)
        lo      == (n - skip) - (IF parts[n] = <<>> THEN 1 ELSE 0)
        shape   == IF skips # {}
                   THEN /\ Cardinality(skips) = 1
                        /\ (parts[1] = <<>> => skip = 2)
                        /\ (parts[n] = <<>> => skip = n - 1)
                        /\ 8 - (hi + lo) >= 1
                   ELSE /\ n = 8
                        /\ parts[1] # <<>>
                        /\ parts[n] # <<>>
    IN  /\ s # <<>>
        /\ Len(raw) >= 3
        /\ (hasV4 => IsIPv4(last))
        /\ n <= 9
        /\ shape
        /\ \A i \in 1..n : HextetOk(parts[i])

\* ipaddress.ip_address raises ValueError unless the text is an IPv4 or an
\* IPv6 literal.
IsIP(s) == IsIPv4(s) \/ IsIPv6(s)

\* ------------------------------------------------------- MAC normalisation
\* A plausible slip: the '.' separator is not rewritten.
NormalizeMacNoDot(field) == Upper(Replace(Strip(field), "-", ":"))

\* raw = row["MAC"].strip(); mac = raw.replace('-', ':').replace('.', ':').upper()
NormalizeMac(field) == Upper(Replace(Replace(Strip(field), "-", ":"), ".", ":"))


\* ------------------------------------------------------------------- state
VARIABLES
    pc,             \* position of main(): the stage about to run
    requests,       \* HTTP requests issued on the session, in order
    output,         \* lines printed (their kind), in order; DEBUG lines left out
    csrf_header,    \* the session's x-csrf-token default header
    network_data,   \* r.json().get("data", [])
    net_idx,        \* position of the `for net in network_data` loop
    vlan_map,       \* VLAN number -> network id
    fieldnames,     \* reader.fieldnames: the set of the CSV header's columns
    n_rows,         \* data rows in the CSV file
    row_idx,        \* data rows the reader has handed out
    row,            \* the row being processed (a dict keyed by fieldnames)
    mac,            \* normalised MAC of the row
    payload,        \* JSON body of the last upsert POST
    success_count,
    error_count

vars == <<pc, requests, output, csrf_header, network_data, net_idx, vlan_map,
          fieldnames, n_rows, row_idx, row, mac, payload, success_count,
          error_count>>

\* ------------------------------------------------------------------ inputs
Text1   == <<"1">>
Text9   == <<"9">>
TextSp2 == <<" ", "2">>
TextX   == <<"x">>

\* what one HTTP call can do: a 2xx response, a 4xx/5xx response, or an
\* exception raised by requests (connection refused, timeout, ...)
HttpResults == {"ok", "http_error", "conn_error"}

\* the x-csrf-token response header: a token, empty, or not there
CsrfValues == {"tok", "", Absent}

NoVlan     == [t |-> "absent", n |-> 0, s |-> <<>>]
IntVlan(k) == [t |-> "int", n |-> k, s |-> <<>>]
StrVlan(x) == [t |-> "str", n |-> 0, s |-> x]

\* network objects of the controller's list: purpose / vlan / _id, each optional
NetObjects ==
    [purpose : {"corporate", "guest", Absent},
     vlan    : {NoVlan, IntVlan(1), IntVlan(2), StrVlan(Text1), StrVlan(TextX)},
     id      : {"n1", "n2", Absent}]

CorpNet   == [purpose |-> "corporate", vlan |-> NoVlan,         id |-> "n1"]
Vlan2Net  == [purpose |-> "guest",     vlan |-> IntVlan(2),     id |-> "n2"]
NoIdNet   == [purpose |-> "guest",     vlan |-> IntVlan(2),     id |-> ""]
BadNet    == [purpose |-> "guest",     vlan |-> StrVlan(TextX), id |-> "n2"]

\* the network lists the whole-run specification draws from
MainNetLists == { <<>>, <<CorpNet, Vlan2Net>>, <<CorpNet, NoIdNet>>, <<Vlan2Net, BadNet>> }

SeqsUpTo(S, n) == UNION {[1..k -> S] : k \in 0..n}

RequiredColumns == {"VLAN", "MAC", "Client Name", "IP"}

\* reader.fieldnames of an empty file is None
NoHeader == {Absent}

\* reader.fieldnames: the set of the header's columns
Headers == { RequiredColumns,
             RequiredColumns \cup {"Comment"},
             RequiredColumns \ {"IP"},
             RequiredColumns \ {"VLAN"},
             NoHeader }

VlanTexts == {Text1, TextSp2, Text9, TextX}
MacTexts  == { <<" ", "a", "-", "B", ".", "c">> }
NameTexts == { <<"p", "c", " ">> }
IpTexts   == { <<" ", "1", "0", ".", "0", ".", "1", "0", ".", "5">>,
               <<"9", "9", "9", ".", "9", "9", "9", ".", "1", ".", "1">>,
               <<"b", "a", "d", "-", "i", "p">>,
               <<":", ":", "1">>,
               NoneField }

EmptyMap == [k \in {} |-> ""]
NoRow == [c \in {} |-> <<>>]
NoPayload == [mac |-> <<>>, fixed_ip |-> <<>>, name |-> <<>>, network_id |-> Absent,
              vlan |-> 0]

\* one request on the session: the endpoint, what the call did, and the
\* x-csrf-token header of its response
Request(kind, res, csrf) == [kind |-> kind, res |-> res, csrf |-> csrf]


\* ------------------------------------------------------------ the pipeline
Init ==
    /\ pc = "login"
    /\ requests = <<>>
    /\ output = <<>>
    /\ csrf_header = Absent
    /\ network_data = <<>>
    /\ net_idx = 1
    /\ vlan_map = EmptyMap
    /\ fieldnames = NoHeader
    /\ n_rows = 0
    /\ row_idx = 0
    /\ row = NoRow
    /\ mac = <<>>
    /\ payload = NoPayload
    /\ success_count = 0
    /\ error_count = 0

\* A slip: the status of the response is never looked at.
RaiseForStatusNoop(res) == FALSE

\* r.raise_for_status(): HTTPError (a RequestException) on a 4xx/5xx response
RaiseForStatus(res) == res = "http_error"

\* s.post / s.get followed by r.raise_for_status() ends in a RequestException
CallRaises(res) == res = "conn_error" \/ RaiseForStatus(res)

\* 1) LOGIN
Login ==
    /\ pc = "login"
    /\ \E res \in HttpResults :
        /\ requests' = Append(requests, Request("login", res, Absent))
        /\ IF CallRaises(res)
           THEN /\ output' = output \o <<"Connecting", "NetworkError">>
                /\ pc' = "finally"
           ELSE /\ output' = Append(output, "Connecting")
                /\ pc' = "csrf"
    /\ UNCHANGED <<csrf_header, network_data, net_idx, vlan_map, fieldnames, n_rows,
                   row_idx, row, mac, payload, success_count, error_count>>

\* 2) GET CSRF TOKEN
FetchCsrf ==
    /\ pc = "csrf"
    /\ \E res \in HttpResults, tok \in CsrfValues :
        /\ requests' = Append(requests, Request("self", res, tok))
        /\ IF CallRaises(res)
           THEN /\ output' = Append(output, "NetworkError")
                /\ pc' = "finally"
                /\ UNCHANGED csrf_header
           ELSE IF tok \in {Absent, ""}
           THEN /\ output' = Append(output, "Error")
                /\ pc' = "finally"
                /\ UNCHANGED csrf_header
           ELSE /\ csrf_header' = tok
                /\ pc' = "fetch_networks"
                /\ UNCHANGED output
    /\ UNCHANGED <<network_data, net_idx, vlan_map, fieldnames, n_rows,
                   row_idx, row, mac, payload, success_count, error_count>>

\* 3) FETCH VLAN->NETWORK_ID MAP: the GET and the start of the loop
FetchNetworks(lists) ==
    /\ pc = "fetch_networks"
    /\ \E res \in HttpResults, data \in lists :
        /\ requests' = Append(requests, Request("networkconf", res, Absent))
        /\ IF CallRaises(res)
           THEN /\ output' = Append(output, "NetworkError")
                /\ pc' = "finally"
                /\ UNCHANGED <<network_data, net_idx, vlan_map>>
           ELSE /\ network_data' = data
                /\ net_idx' = 1
                /\ vlan_map' = EmptyMap
                /\ pc' = IF data = <<>> THEN "open_csv" ELSE "resolve"
                /\ UNCHANGED output
    /\ UNCHANGED <<csrf_header, fieldnames, n_rows, row_idx, row, mac, payload,
                   success_count, error_count>>

Put(m, k, v) == [x \in (DOMAIN m) \cup {k} |-> IF x = k THEN v ELSE m[x]]

\* int(net.get("vlan")): a JSON number is taken as it is, a JSON string is parsed
CoerceVlan(v) == IF v.t = "int" THEN [ok |-> TRUE, val |-> v.n] ELSE PyInt(v.s)

\* A slip: a corporate network without a vlan field is not taken for VLAN 1.
IsDefaultNetworkTaggedOnly(net) ==
    /\ net.purpose = "corporate"
    /\ net.vlan.t = "int" /\ net.vlan.n = 1

\* 'purpose' in net and net['purpose'] == 'corporate'
\*     and ('vlan' not in net or net.get('vlan') == 1)
IsDefaultNetwork(net) ==
    /\ net.purpose = "corporate"
    /\ \/ net.vlan.t = "absent"
       \/ net.vlan.t = "int" /\ net.vlan.n = 1

\* A slip: an entry already in the map is kept (first write wins).
StoreKeepFirst(m, k, v) == IF k \in DOMAIN m THEN m ELSE Put(m, k, v)

\* vlan_map[k] = v
Store(m, k, v) == Put(m, k, v)

\* One pass of the loop body over `net`: the map after it, or raised = TRUE
\* when int() or net["_id"] raises.
BuildStep(m, net) ==
    IF IsDefaultNetwork(net)
    THEN IF net.id = Absent
         THEN [raised |-> TRUE, map |-> m]
         ELSE [raised |-> FALSE, map |-> Store(m, 1, net.id)]
    ELSE IF net.vlan.t # "absent"
    THEN IF ~CoerceVlan(net.vlan).ok \/ net.id = Absent
         THEN [raised |-> TRUE, map |-> m]
         ELSE [raised |-> FALSE, map |-> Store(m, CoerceVlan(net.vlan).val, net.id)]
    ELSE [raised |-> FALSE, map |-> m]

\* one iteration of `for net in network_data`
ResolveNet ==
    /\ pc = "resolve"
    /\ LET step == BuildStep(vlan_map, network_data[net_idx])
       IN  IF step.raised
           THEN /\ output' = Append(output, "Error")
                /\ pc' = "finally"
                /\ UNCHANGED <<vlan_map, net_idx>>
           ELSE /\ vlan_map' = step.map
                /\ net_idx' = net_idx + 1
                /\ pc' = IF net_idx = Len(network_data) THEN "open_csv" ELSE "resolve"
                /\ UNCHANGED output
    /\ UNCHANGED <<requests, csrf_header, network_data, fieldnames, n_rows,
                   row_idx, row, mac, payload, success_count, error_count>>


\* what open(CSV_PATH) can do: succeed, raise FileNotFoundError, or raise
\* another OSError (a directory, no permission)
OpenResults == {"opened", "not_found", "os_error"}

\* 4) PUSH STATIC-DHCP + VLAN INFO: open(CSV_PATH) and csv.DictReader(f)
OpenCsv ==
    /\ pc = "open_csv"
    /\ \E how \in OpenResults, hdr \in Headers, n \in 0..MaxRows :
        /\ (hdr = NoHeader => n = 0)
        /\ IF how = "opened"
           THEN /\ fieldnames' = hdr
                /\ n_rows' = n
                /\ pc' = "check_header"
                /\ UNCHANGED output
           ELSE /\ output' = Append(output, IF how = "not_found"
                                            THEN "FileNotFound" ELSE "Error")
                /\ pc' = "finally"
                /\ UNCHANGED <<fieldnames, n_rows>>
    /\ UNCHANGED <<requests, csrf_header, network_data, net_idx, vlan_map,
                   row_idx, row, mac, payload, success_count, error_count>>

\* A slip: the IP column is left out of the list of required columns.
HeaderOkNoIp(hdr) == {"VLAN", "MAC", "Client Name"} \subseteq hdr

\* all(field in reader.fieldnames for field in ["VLAN", "MAC", "Client Name", "IP"])
HeaderOk(hdr) == RequiredColumns \subseteq hdr

\* A slip: the early return leaves main() without passing through the cleanup.
CheckHeaderNoCleanup ==
    /\ pc = "check_header"
    /\ IF fieldnames = NoHeader
       THEN /\ output' = Append(output, "Error")
            /\ pc' = "finally"
            /\ UNCHANGED <<success_count, error_count>>
       ELSE IF ~HeaderOk(fieldnames)
       THEN /\ output' = Append(output, "ColumnsError")
            /\ pc' = "done"
            /\ UNCHANGED <<success_count, error_count>>
       ELSE /\ success_count' = 0
            /\ error_count' = 0
            /\ pc' = "rows"
            /\ UNCHANGED output
    /\ UNCHANGED <<requests, csrf_header, network_data, net_idx, vlan_map,
                   fieldnames, n_rows, row_idx, row, mac, payload>>

\* The header check. `field in None` raises TypeError for an empty file; a
\* missing column prints the message and returns (through the finally clause);
\* otherwise the counters are set to 0 and the loop starts.
CheckHeader ==
    /\ pc = "check_header"
    /\ IF fieldnames = NoHeader
       THEN /\ output' = Append(output, "Error")
            /\ pc' = "finally"
            /\ UNCHANGED <<success_count, error_count>>
       ELSE IF ~HeaderOk(fieldnames)
       THEN /\ output' = Append(output, "ColumnsError")
            /\ pc' = "finally"
            /\ UNCHANGED <<success_count, error_count>>
       ELSE /\ success_count' = 0
            /\ error_count' = 0
            /\ pc' = "rows"
            /\ UNCHANGED output
    /\ UNCHANGED <<requests, csrf_header, network_data, net_idx, vlan_map,
                   fieldnames, n_rows, row_idx, row, mac, payload>>

\* row[col] raises KeyError for a column the header lacks, and the str methods
\* raise AttributeError on the None of a short row
HasText(r, col) == col \in DOMAIN r /\ r[col] # NoneField

\* vlan_map.get(vlan_num)
MapGet(m, k) == IF k \in DOMAIN m THEN m[k] ELSE Absent

\* A slip: the result of the IP check is ignored.
IpAcceptedAlways(text) == TRUE

\* try: ipaddress.ip_address(ip_address) / except ValueError
IpAccepted(text) == IsIP(text)

\* What the loop body does with row r: "raise" (an exception leaves the loop),
\* "unknown_vlan" and "invalid_ip" (the two `continue` branches), or "upsert".
RowVerdict(r, m) ==
    IF "VLAN" \notin DOMAIN r \/ ~PyInt(r["VLAN"]).ok THEN "raise"
    ELSE IF MapGet(m, PyInt(r["VLAN"]).val) \in {Absent, ""}
    THEN IF "MAC" \in DOMAIN r THEN "unknown_vlan" ELSE "raise"
    ELSE IF ~HasText(r, "MAC") \/ ~HasText(r, "IP") THEN "raise"
    ELSE IF ~IpAccepted(Strip(r["IP"])) THEN "invalid_ip"
    ELSE IF ~HasText(r, "Client Name") THEN "raise"
    ELSE "upsert"

\* the payload dict of the upsert POST
Payload(r, m) ==
    [mac        |-> NormalizeMac(r["MAC"]),
     fixed_ip   |-> Strip(r["IP"]),
     name       |-> Strip(r["Client Name"]),
     network_id |-> MapGet(m, PyInt(r["VLAN"]).val),
     vlan       |-> PyInt(r["VLAN"]).val]

\* A slip: the invalid-IP branch skips the row without counting it.
RowCountsNoInvalid(verdict, res) ==
    [succ |-> IF verdict = "upsert" /\ res = "ok" THEN 1 ELSE 0,
     err  |-> IF \/ verdict = "unknown_vlan"
                 \/ verdict = "upsert" /\ res = "http_error"
              THEN 1 ELSE 0]

\* what one row adds to success_count and error_count
RowCounts(verdict, res) ==
    [succ |-> IF verdict = "upsert" /\ res = "ok" THEN 1 ELSE 0,
     err  |-> IF \/ verdict \in {"unknown_vlan", "invalid_ip"}
                 \/ verdict = "upsert" /\ res = "http_error"
              THEN 1 ELSE 0]

\* the line one row prints last
RowLine(verdict, res) ==
    CASE verdict = "raise"        -> "Error"
      [] verdict = "unknown_vlan" -> "UnknownVlan"
      [] verdict = "invalid_ip"   -> "InvalidIp"
      [] OTHER -> CASE res = "ok"         -> "RowOk"
                    [] res = "http_error" -> "RowFailed"
                    [] OTHER              -> "NetworkError"

\* the rows a reader over header hdr can hand out: a dict keyed by the columns
RowsOver(hdr) ==
    { [c \in hdr |-> CASE c = "VLAN"        -> v
                       [] c = "MAC"         -> mc
                       [] c = "Client Name" -> nm
                       [] c = "IP"          -> ip
                       [] OTHER             -> <<>>] :
        v \in VlanTexts, mc \in MacTexts, nm \in NameTexts, ip \in IpTexts }

\* one iteration of `for row in reader`
ProcessRow ==
    /\ pc = "rows"
    /\ row_idx < n_rows
    /\ row' \in RowsOver(fieldnames)
    /\ row_idx' = row_idx + 1
    /\ \E res \in HttpResults :
        LET verdict == RowVerdict(row', vlan_map)
            aborts  == verdict = "raise" \/ (verdict = "upsert" /\ res = "conn_error")
        IN  /\ mac' = IF verdict \in {"invalid_ip", "upsert"}
                      THEN NormalizeMac(row'["MAC"]) ELSE mac
            /\ payload' = IF verdict = "upsert" THEN Payload(row', vlan_map) ELSE payload
            /\ requests' = IF verdict = "upsert"
                           THEN Append(requests, Request("upsert", res, Absent))
                           ELSE requests
            /\ success_count' = success_count + RowCounts(verdict, res).succ
            /\ error_count' = error_count + RowCounts(verdict, res).err
            /\ output' = Append(output, RowLine(verdict, res))
            /\ pc' = IF aborts THEN "finally" ELSE "rows"
    /\ UNCHANGED <<csrf_header, network_data, net_idx, vlan_map, fieldnames, n_rows>>

\* A slip: the summary line is forgotten.
EndOfRowsSilent ==
    /\ pc = "rows"
    /\ row_idx = n_rows
    /\ pc' = "finally"
    /\ UNCHANGED <<output, requests, csrf_header, network_data, net_idx, vlan_map,
                   fieldnames, n_rows, row_idx, row, mac, payload, success_count,
                   error_count>>

\* the reader is exhausted: print the summary
EndOfRows ==
    /\ pc = "rows"
    /\ row_idx = n_rows
    /\ output' = Append(output, "Summary")
    /\ pc' = "finally"
    /\ UNCHANGED <<requests, csrf_header, network_data, net_idx, vlan_map,
                   fieldnames, n_rows, row_idx, row, mac, payload, success_count,
                   error_count>>

\* 5) LOGOUT, in the finally clause; an exception of the POST is swallowed
Logout ==
    /\ pc = "finally"
    /\ \E res \in HttpResults :
        /\ requests' = Append(requests, Request("logout", res, Absent))
        /\ output' = IF res = "conn_error" THEN output ELSE Append(output, "LoggedOut")
    /\ pc' = "done"
    /\ UNCHANGED <<csrf_header, network_data, net_idx, vlan_map, fieldnames, n_rows,
                   row_idx, row, mac, payload, success_count, error_count>>

Next ==
    \/ Login
    \/ FetchCsrf
    \/ FetchNetworks(MainNetLists)
    \/ ResolveNet
    \/ OpenCsv
    \/ CheckHeader
    \/ ProcessRow
    \/ EndOfRows
    \/ Logout

Spec == Init /\ [][Next]_vars

\* the row loop takes its next iteration, whatever the row holds: the steps
\* of ProcessRow, told by what they do to row_idx
RowIteration == pc = "rows" /\ row_idx < n_rows /\ row_idx' = row_idx + 1

\* main() is one thread and every call it makes returns or raises, so each
\* stage that can run does run.
FairSpec ==
    /\ Spec
    /\ WF_vars(Login)
    /\ WF_vars(FetchCsrf)
    /\ WF_vars(FetchNetworks(MainNetLists))
    /\ WF_vars(ResolveNet)
    /\ WF_vars(OpenCsv)
    /\ WF_vars(CheckHeader)
    /\ WF_row_idx(RowIteration)
    /\ WF_vars(EndOfRows)
    /\ WF_vars(Logout)

\* ------------------------------------------- the resolver on its own inputs
\* main() after a successful login and CSRF fetch, about to fetch the networks
ResolverInit ==
    /\ pc = "fetch_networks"
    /\ requests = <<Request("login", "ok", Absent), Request("self", "ok", "tok")>>
    /\ output = <<"Connecting">>
    /\ csrf_header = "tok"
    /\ network_data = <<>>
    /\ net_idx = 1
    /\ vlan_map = EmptyMap
    /\ fieldnames = NoHeader
    /\ n_rows = 0
    /\ row_idx = 0
    /\ row = NoRow
    /\ mac = <<>>
    /\ payload = NoPayload
    /\ success_count = 0
    /\ error_count = 0

ResolverNext ==
    \/ FetchNetworks(SeqsUpTo(NetObjects, MaxNets))
    \/ ResolveNet

ResolverSpec == ResolverInit /\ [][ResolverNext]_vars

\* ------------------------------------- MAC normalisation on its own inputs
MacAlphabet == {"a", "F", "-", ".", ":", " "}

\* a row whose MAC field is any text over MacAlphabet, about to be normalised
MacInit ==
    /\ pc = "normalize"
    /\ \E m \in SeqsUpTo(MacAlphabet, MaxMacLen) :
        row = [c \in RequiredColumns |-> IF c = "MAC" THEN m ELSE <<>>]
    /\ mac = <<>>
    /\ requests = <<>>
    /\ output = <<>>
    /\ csrf_header = Absent
    /\ network_data = <<>>
    /\ net_idx = 1
    /\ vlan_map = EmptyMap
    /\ fieldnames = RequiredColumns
    /\ n_rows = 1
    /\ row_idx = 1
    /\ payload = NoPayload
    /\ success_count = 0
    /\ error_count = 0

\* raw = row["MAC"].strip(); mac = raw.replace(...).replace(...).upper()
MacNormalize ==
    /\ pc = "normalize"
    /\ mac' = NormalizeMac(row["MAC"])
    /\ pc' = "normalized"
    /\ UNCHANGED <<requests, output, csrf_header, network_data, net_idx, vlan_map,
                   fieldnames, n_rows, row_idx, row, payload, success_count,
                   error_count>>

MacNext == MacNormalize

MacSpec == MacInit /\ [][MacNext]_vars

\* ================================================================== claims
Range(f) == {f[i] : i \in DOMAIN f}
Kinds(k) == {i \in 1..Len(requests) : requests[i].kind = k}
AbortLines == {"NetworkError", "Error", "ColumnsError", "FileNotFound"}

\* the header check passed, so the row loop was entered
LoopEntered == pc \in {"rows", "finally", "done"} /\ RequiredColumns \subseteq fieldnames

\* C1: after a run whose row loop ran to the end of the file (the summary line
\* is reached), success_count + error_count is the number of data rows; while
\* the loop runs, the two counters sum to the rows handed out so far.
C1_CountsSumToRows ==
    /\ (pc = "rows" => success_count + error_count = row_idx)
    /\ (pc \in {"finally", "done"} /\ "Summary" \in Range(output)
            => row_idx = n_rows /\ success_count + error_count = n_rows)

\* a completed run over at least two rows with a success and an error
C1_Witness ==
    /\ pc = "done"
    /\ "Summary" \in Range(output)
    /\ n_rows >= 2
    /\ success_count >= 1
    /\ error_count >= 1

\* C2: once the row loop is entered, every row of the file is processed and
\* counted, whatever a row contains and whatever its upsert call does.
C2_EveryRowProcessed ==
    pc = "done" /\ LoopEntered
        => row_idx = n_rows /\ success_count + error_count = n_rows

\* C3: every run ends, and when it has ended exactly one logout POST was
\* issued and it is the last request; no logout is issued before the end.
C3_LogoutOnceLast ==
    /\ <>(pc = "done")
    /\ [](pc = "done" => /\ Cardinality(Kinds("logout")) = 1
                         /\ requests[Len(requests)].kind = "logout")
    /\ [](pc # "done" => Kinds("logout") = {})

\* a run that returned early on a missing column and still logged out
C3_Witness ==
    /\ pc = "done"
    /\ "ColumnsError" \in Range(output)
    /\ requests[Len(requests)].kind = "logout"

\* C4 as stated: every finished run has printed the summary line.
C4_SummaryAlways == pc = "done" => "Summary" \in Range(output)

\* C4 amended: a finished run has printed the summary line exactly when it
\* printed no abort message, and then the row loop ran to the end of the file;
\* an aborted run (login, CSRF, network list, CSV file, header, or an exception
\* in the row loop) ends without a summary line.
C4_SummaryIffCompleted ==
    pc = "done" =>
        /\ ("Summary" \in Range(output) <=> Range(output) \cap AbortLines = {})
        /\ ("Summary" \in Range(output) => LoopEntered /\ row_idx = n_rows)

\* a run aborted by an exception inside the row loop: no summary
C4_Witness ==
    /\ pc = "done"
    /\ LoopEntered
    /\ row_idx >= 1
    /\ "Error" \in Range(output)
    /\ "Summary" \notin Range(output)

\* the row's VLAN text is an integer, so the row reaches the validation steps
ReachesValidation(r) == PyInt(r["VLAN"]).ok

\* the validation rejects the row: VLAN not in the map, or IP not a literal
Rejected(r, m) ==
    /\ ReachesValidation(r)
    /\ \/ PyInt(r["VLAN"]).val \notin DOMAIN m
       \/ r["IP"] # NoneField /\ ~IsIP(Strip(r["IP"]))

\* C5: a row the validation rejects causes no upsert POST, adds exactly 1 to
\* error_count and leaves success_count alone; a row for which an upsert POST
\* is issued has its VLAN in the map and an IP that parses.
C5_RejectedRowsNotSent ==
    [][ row_idx' = row_idx + 1 =>
          /\ (Rejected(row', vlan_map) =>
                /\ requests' = requests
                /\ error_count' = error_count + 1
                /\ success_count' = success_count)
          /\ (requests' # requests =>
                /\ requests'[Len(requests')].kind = "upsert"
                /\ PyInt(row'["VLAN"]).ok
                /\ PyInt(row'["VLAN"]).val \in DOMAIN vlan_map
                /\ IsIP(Strip(row'["IP"]))
                /\ payload'.vlan \in DOMAIN vlan_map
                /\ IsIP(payload'.fixed_ip)) ]_vars

\* a row with a mapped VLAN and a bad IP was counted as the only error, unsent
C5_Witness ==
    /\ pc = "rows"
    /\ row_idx = 1
    /\ PyInt(row["VLAN"]).val \in DOMAIN vlan_map
    /\ vlan_map[PyInt(row["VLAN"]).val] # ""
    /\ row["IP"] # NoneField
    /\ ~IsIP(Strip(row["IP"]))
    /\ error_count = 1
    /\ success_count = 0
    /\ Kinds("upsert") = {}

\* C6: when the header lacks a required column no data row is read, no upsert
\* POST is issued and neither counter is incremented.
C6_NoRowOnBadHeader ==
    ~(RequiredColumns \subseteq fieldnames)
        => /\ row_idx = 0
           /\ success_count = 0
           /\ error_count = 0
           /\ Kinds("upsert") = {}

\* a finished run over a file with data rows whose header lacks IP
C6_Witness ==
    /\ pc = "done"
    /\ fieldnames = RequiredColumns \ {"IP"}
    /\ n_rows >= 1
    /\ "ColumnsError" \in Range(output)

\* purpose == "corporate" and no vlan field or vlan == 1
CorporateDefault(net) == net.purpose = "corporate" /\ net.vlan \in {NoVlan, IntVlan(1)}

\* the VLAN numbers a network object resolves to (none, or one)
KeysOf(net) ==
    IF CorporateDefault(net) THEN {1}
    ELSE IF net.vlan.t = "int" THEN {net.vlan.n}
    ELSE IF net.vlan.t = "str" /\ PyInt(net.vlan.s).ok THEN {PyInt(net.vlan.s).val}
    ELSE {}

Resolving(k) == {i \in 1..Len(network_data) : k \in KeysOf(network_data[i])}
LastOf(S) == CHOOSE i \in S : \A j \in S : j <= i

\* the loop over network_data has finished without raising
MapBuilt == pc = "open_csv"

\* C7 as stated: the built map has key 1 mapped to the identifier of every
\* corporate-default network object of the list.
C7_EveryDefaultMapped ==
    MapBuilt => \A i \in 1..Len(network_data) :
        CorporateDefault(network_data[i])
            => 1 \in DOMAIN vlan_map /\ vlan_map[1] = network_data[i]["id"]

\* C7 amended: when the list holds a corporate-default object the built map has
\* key 1, mapped to the identifier of the last object of the list that resolves
\* to VLAN 1 (corporate-default, or a vlan field that coerces to 1); so it is a
\* corporate-default object's identifier when no later object resolves to 1.
C7_LastDefaultMapped ==
    MapBuilt => \A i \in 1..Len(network_data) :
        CorporateDefault(network_data[i])
            => /\ 1 \in DOMAIN vlan_map
               /\ vlan_map[1] = network_data[LastOf(Resolving(1))]["id"]
               /\ (LastOf(Resolving(1)) = i => vlan_map[1] = network_data[i]["id"])

\* two corporate-default objects with different identifiers: the second wins
C7_Witness ==
    /\ MapBuilt
    /\ Len(network_data) = 2
    /\ CorporateDefault(network_data[1])
    /\ CorporateDefault(network_data[2])
    /\ network_data[1]["id"] # network_data[2]["id"]
    /\ vlan_map[1] = network_data[2]["id"]

\* C8: the keys of the built map are exactly the VLAN numbers the objects of
\* the list resolve to (objects matching neither rule add none), and each key
\* maps to the identifier of the last object in list order that resolves to it.
C8_LastWriteWins ==
    MapBuilt =>
        /\ DOMAIN vlan_map = UNION {KeysOf(network_data[i]) : i \in 1..Len(network_data)}
        /\ \A k \in DOMAIN vlan_map :
              vlan_map[k] = network_data[LastOf(Resolving(k))]["id"]

\* two objects with the explicit tag 2 and different identifiers, the second
\* kept, the list also making no other key
C8_Witness ==
    /\ MapBuilt
    /\ Len(network_data) = 2
    /\ network_data[1].vlan = IntVlan(2)
    /\ network_data[2].vlan = IntVlan(2)
    /\ network_data[1]["id"] # network_data[2]["id"]
    /\ DOMAIN vlan_map = {2}
    /\ vlan_map[2] = network_data[2]["id"]

Separators == {"-", ".", ":"}

\* the same text spelled with separator sep
RECURSIVE Respell(_, _)
Respell(s, sep) ==
    IF s = <<>> THEN <<>>
    ELSE <<IF Head(s) \in Separators THEN sep ELSE Head(s)>> \o Respell(Tail(s), sep)

LowerChar(c) == IF \E i \in 1..Len(Uppers) : Uppers[i] = c
                THEN Lowers[CHOOSE i \in 1..Len(Uppers) : Uppers[i] = c]
                ELSE c

\* the same text in lower case
RECURSIVE Lower(_)
Lower(s) == IF s = <<>> THEN <<>> ELSE <<LowerChar(Head(s))>> \o Lower(Tail(s))

\* C9: normalising a normalised MAC changes nothing, and the '-', '.' and ':'
\* spellings of a MAC, in lower, upper or the given case, all normalise to the
\* same text, which has ':' as its only separator and no lower-case letter.
C9_NormalizeIdempotent ==
    pc = "normalized" =>
        /\ NormalizeMac(mac) = mac
        /\ \A sep \in Separators :
              /\ NormalizeMac(Respell(row["MAC"], sep)) = mac
              /\ NormalizeMac(Respell(Lower(row["MAC"]), sep)) = mac
              /\ NormalizeMac(Respell(Upper(row["MAC"]), sep)) = mac
        /\ \A i \in 1..Len(mac) : mac[i] \notin {"-", "."} /\ mac[i] = UpperChar(mac[i])

\* a lower-case '.'-separated MAC with padding became upper case with ':'
C9_Witness ==
    /\ pc = "normalized"
    /\ row["MAC"] = <<" ", "a", ".">>
    /\ mac = <<"A", ":">>

Rank(kind) == CASE kind = "login"       -> 1
                [] kind = "self"        -> 2
                [] kind = "networkconf" -> 3
                [] kind = "upsert"      -> 4
                [] OTHER                -> 5

\* the request did not let its stage succeed
StageFailed(q) == q.res # "ok" \/ (q.kind = "self" /\ q.csrf \in {Absent, ""})

\* C10: the requests of a run are login, self, networkconf, the upserts and
\* the logout in this order, none of the first three repeated; an upsert comes
\* only after a successful login, a self response with a non-empty CSRF token
\* and a successful networkconf; after a failed login, self or networkconf the
\* only request that follows is the logout.
C10_StagesInOrder ==
    /\ \A i, j \in 1..Len(requests) :
          i < j => \/ Rank(requests[i].kind) < Rank(requests[j].kind)
                   \/ requests[i].kind = "upsert" /\ requests[j].kind = "upsert"
    /\ \A i \in Kinds("upsert") :
          /\ i >= 4
          /\ \A j \in 1..3 : Rank(requests[j].kind) = j /\ ~StageFailed(requests[j])
    /\ \A i \in 1..Len(requests) :
          Rank(requests[i].kind) <= 3 /\ StageFailed(requests[i])
              => \A j \in (i + 1)..Len(requests) : requests[j].kind = "logout"

\* a finished run that issued an upsert
C10_Witness ==
    /\ pc = "done"
    /\ Kinds("upsert") # {}

====
